---- MODULE Spec2Model ----
(***************************************************************************)
(* Zen-AI-Fax backend (src/app.js): the three Express route handlers       *)
(* GET /documents, GET /document/:id and POST /upload, each an async       *)
(* function whose awaits are the points where the event loop may run       *)
(* another request.  The services ./services/db, ./services/azureBlob and  *)
(* ./services/analyzer are required by app.js; their behaviour is taken    *)
(* from the specification (section 4.2 - 4.4).                             *)
(*                                                                         *)
(* One action is one awaited call of one request: the effect of the call   *)
(* on the store and the code the handler runs when the call resolves or    *)
(* throws, up to the next await.  A handler has no await between its last  *)
(* store call and its response, so the response is part of that action.    *)
(***************************************************************************)
EXTENDS Integers, Sequences, FiniteSets, TLC

\* Number of POST /upload requests.
MaxUploads == 2

Uploads == 1..MaxUploads

(***************************************************************************)
(* JavaScript values: a value carries its type, so that `x || null` can    *)
(* be computed as JavaScript computes it.  A confidence is a number in     *)
(* [0,1]; it is kept in hundredths (0.9 is Num(90)), which preserves the   *)
(* only thing the code asks of it: whether it is 0.                        *)
(***************************************************************************)
Undefined == [t |-> "undefined", n |-> 0, s |-> ""]
Null == [t |-> "null", n |-> 0, s |-> ""]
Num(k) == [t |-> "number", n |-> k, s |-> ""]
Str(x) == [t |-> "string", n |-> 0, s |-> x]

Falsy(v) ==
    \/ v.t \in {"undefined", "null"}
    \/ v.t = "number" /\ v.n = 0
    \/ v.t = "string" /\ v.s = ""

\* a || b
Or(a, b) == IF Falsy(a) THEN b ELSE a

\* an optional array (analysis.fields may be missing)
NoArray == [present |-> FALSE, items |-> <<>>]
Array(items) == [present |-> TRUE, items |-> items]
\* arr || [] : an array, even an empty one, is truthy
OrEmpty(arr) == IF arr.present THEN arr.items ELSE <<>>

(***************************************************************************)
(* Request inputs.                                                         *)
(***************************************************************************)
NoFile == "<none>"
FileNames == {"invoice 1.pdf"}
FileInputs == FileNames \cup {NoFile}

\* req.file.path: the file multer wrote under UPLOAD_DIR
LocalPath(name) == [kind |-> "local", name |-> name]
\* what azureBlob.uploadLocalFile resolves to
RemoteUrl(name) == [kind |-> "remote", name |-> name]
NoUrl == [kind |-> "none", name |-> ""]

F1 == [name |-> "total", value |-> "100"]
F2 == [name |-> "vendor", value |-> "acme"]

NoAnalysis == [documentType |-> Undefined, confidence |-> Undefined, fields |-> NoArray]
\* what analyzer.analyze may resolve to
AnalysisResults ==
    { [documentType |-> Str("invoice"), confidence |-> Num(90), fields |-> Array(<<F1, F2>>)],
      [documentType |-> Undefined, confidence |-> Num(0), fields |-> NoArray] }

VARIABLES
    cloud,       \* process.env.AZURE_STORAGE_CONNECTION_STRING is set
    documents,   \* the documents table, in insertion order
    fieldRows,   \* the extracted-fields table, in insertion order
    uuidCalls,   \* number of ids uuidv4() has generated
    uploads,     \* the POST /upload requests
    get,         \* the GET /document/:id request being followed
    listResp     \* the GET /documents request being followed: its response, and what had happened by then

vars == <<cloud, documents, fieldRows, uuidCalls, uploads, get, listResp>>

(***************************************************************************)
(* Document Store (./services/db).                                         *)
(***************************************************************************)
NotFound == [id |-> 0, filename |-> "", blob_url |-> NoUrl, status |-> "<absent>",
             document_type |-> Null, confidence |-> Null]

HasRow(docs, id) == \E i \in 1..Len(docs) : docs[i].id = id

insertDocument(docs, doc) ==
    Append(docs, [id |-> doc.id, filename |-> doc.filename, blob_url |-> doc.blob_url,
                  status |-> doc.status, document_type |-> Null, confidence |-> Null])

listDocuments(docs) == docs

getDocument(docs, id) ==
    IF HasRow(docs, id)
    THEN docs[CHOOSE i \in 1..Len(docs) : docs[i].id = id]
    ELSE NotFound

getFields(rows, id) == SelectSeq(rows, LAMBDA f : f.document_id = id)

RECURSIVE saveExtractedFields(_, _, _)
saveExtractedFields(rows, id, fields) ==
    IF fields = <<>> THEN rows
    ELSE saveExtractedFields(
            Append(rows, [document_id |-> id, name |-> Head(fields).name,
                          value |-> Head(fields).value]),
            id, Tail(fields))

updateDocumentStatus(docs, id, status, documentType, confidence) ==
    [i \in 1..Len(docs) |->
        IF docs[i].id = id
        THEN [docs[i] EXCEPT !.status = status, !.document_type = documentType,
                             !.confidence = confidence]
        ELSE docs[i]]

(***************************************************************************)
(* POST /upload.                                                           *)
(***************************************************************************)
IdleUpload ==
    [pc |-> "idle", file |-> NoFile, id |-> 0, blobUrl |-> NoUrl, analysis |-> NoAnalysis,
     resp |-> 0, error |-> "", failedAt |-> "", ran |-> <<>>, cloudFailed |-> FALSE]

HasFileAlways(file) == TRUE
\* if (!req.file) return 400
HasFile(file) == file # NoFile

NextStepNoUpdate(s) ==
    CASE s = "insertDocument" -> "analyze"
      [] s = "analyze" -> "saveExtractedFields"
      [] s = "saveExtractedFields" -> "respond"
      [] OTHER -> "respond"
NextStepSwapped(s) ==
    CASE s = "insertDocument" -> "analyze"
      [] s = "analyze" -> "updateDocumentStatus"
      [] s = "updateDocumentStatus" -> "saveExtractedFields"
      [] s = "saveExtractedFields" -> "respond"
\* the order of the awaited calls of the handler
NextStep(s) ==
    CASE s = "insertDocument" -> "analyze"
      [] s = "analyze" -> "saveExtractedFields"
      [] s = "saveExtractedFields" -> "updateDocumentStatus"
      [] s = "updateDocumentStatus" -> "respond"

\* res.json({ success: true, documentId: id, analysis })
Respond200(u) == [u EXCEPT !.pc = "done", !.resp = 200]

\* History kept with a request: the awaited call s was made / the call s threw.
Called(u, s) == [u EXCEPT !.ran = Append(u.ran, s)]
Threw(u, s) == [Called(u, s) EXCEPT !.failedAt = s]

\* the request after the awaited call s has resolved
Advance(u, s) ==
    IF NextStep(s) = "respond" THEN Respond200(u) ELSE [u EXCEPT !.pc = NextStep(s)]

OnErrorContinue(u, s) == Advance(u, s)
\* the request after the awaited call s has thrown:
\* catch (err) { res.status(500).json({ success: false, error: 'upload failed' }) }
OnError(u, s) == [u EXCEPT !.pc = "done", !.resp = 500, !.error = "upload failed"]

BlobCatchRethrow(u) == OnError([u EXCEPT !.failedAt = "uploadLocalFile"], "uploadLocalFile")
\* catch (err) { console.error(...) }  continue and use local path
BlobCatch(u) == [u EXCEPT !.pc = "insertDocument"]

InsertArgsProcessed(u) ==
    [id |-> u.id, filename |-> u.file, blob_url |-> u.blobUrl, status |-> "processed"]
\* { id, filename, blob_url: blobUrl, status: 'processing' }
InsertArgs(u) ==
    [id |-> u.id, filename |-> u.file, blob_url |-> u.blobUrl, status |-> "processing"]

FieldsArgEmpty(u) == <<>>
\* analysis.fields || []
FieldsArg(u) == OrEmpty(u.analysis.fields)

\* 'processed', analysis.documentType || null, analysis.confidence || null
UpdateArgs(u) ==
    [status |-> "processed", documentType |-> Or(u.analysis.documentType, Null),
     confidence |-> Or(u.analysis.confidence, Null)]

\* The request arrives; the handler runs up to its first await.
UploadStart(r) ==
    /\ uploads[r].pc = "idle"
    /\ \A q \in Uploads : q < r => uploads[q].pc # "idle"
    /\ \E file \in FileInputs :
        IF ~HasFile(file)
        THEN /\ uploads' = [uploads EXCEPT ![r] =
                    [@ EXCEPT !.pc = "done", !.file = file, !.resp = 400,
                              !.error = "no file uploaded"]]
             /\ UNCHANGED uuidCalls
        ELSE /\ uuidCalls' = uuidCalls + 1
             /\ uploads' = [uploads EXCEPT ![r] =
                    [@ EXCEPT !.pc = IF cloud THEN "uploadLocalFile" ELSE "insertDocument",
                              !.file = file, !.id = uuidCalls + 1,
                              !.blobUrl = LocalPath(file)]]
    /\ UNCHANGED <<cloud, documents, fieldRows, get, listResp>>

\* await azureBlob.uploadLocalFile(...) resolves or throws
UploadBlob(r) ==
    LET u == uploads[r]
        v == Called(u, "uploadLocalFile")
    IN
    /\ u.pc = "uploadLocalFile"
    /\ \E ok \in BOOLEAN :
        uploads' = [uploads EXCEPT ![r] =
            IF ok
            THEN [v EXCEPT !.pc = "insertDocument", !.blobUrl = RemoteUrl(u.file)]
            ELSE BlobCatch([v EXCEPT !.cloudFailed = TRUE])]
    /\ UNCHANGED <<cloud, documents, fieldRows, uuidCalls, get, listResp>>

\* await db.insertDocument(...) resolves or throws
UploadInsert(r) ==
    LET u == uploads[r]
        s == "insertDocument"
    IN
    /\ u.pc = s
    /\ \E ok \in BOOLEAN :
        IF ok /\ ~HasRow(documents, InsertArgs(u).id)
        THEN /\ documents' = insertDocument(documents, InsertArgs(u))
             /\ uploads' = [uploads EXCEPT ![r] = Advance(Called(u, s), s)]
        ELSE /\ uploads' = [uploads EXCEPT ![r] = OnError(Threw(u, s), s)]
             /\ UNCHANGED documents
    /\ UNCHANGED <<cloud, fieldRows, uuidCalls, get, listResp>>

\* await analyzer.analyze(blobUrl, filepath) resolves or throws
UploadAnalyze(r) ==
    LET u == uploads[r]
        s == "analyze"
    IN
    /\ u.pc = s
    /\ \/ \E a \in AnalysisResults :
            uploads' = [uploads EXCEPT ![r] = Advance([Called(u, s) EXCEPT !.analysis = a], s)]
       \/ uploads' = [uploads EXCEPT ![r] = OnError(Threw(u, s), s)]
    /\ UNCHANGED <<cloud, documents, fieldRows, uuidCalls, get, listResp>>

\* await db.saveExtractedFields(id, analysis.fields || []) resolves or throws
UploadSave(r) ==
    LET u == uploads[r]
        s == "saveExtractedFields"
    IN
    /\ u.pc = s
    /\ \E ok \in BOOLEAN :
        IF ok
        THEN /\ fieldRows' = saveExtractedFields(fieldRows, u.id, FieldsArg(u))
             /\ uploads' = [uploads EXCEPT ![r] = Advance(Called(u, s), s)]
        ELSE /\ uploads' = [uploads EXCEPT ![r] = OnError(Threw(u, s), s)]
             /\ UNCHANGED fieldRows
    /\ UNCHANGED <<cloud, documents, uuidCalls, get, listResp>>

\* await db.updateDocumentStatus(id, 'processed', ...) resolves or throws
UploadUpdate(r) ==
    LET u == uploads[r]
        s == "updateDocumentStatus"
        a == UpdateArgs(u)
    IN
    /\ u.pc = s
    /\ \E ok \in BOOLEAN :
        IF ok /\ HasRow(documents, u.id)
        THEN /\ documents' = updateDocumentStatus(documents, u.id, a.status,
                                                  a.documentType, a.confidence)
             /\ uploads' = [uploads EXCEPT ![r] = Advance(Called(u, s), s)]
        ELSE /\ uploads' = [uploads EXCEPT ![r] = OnError(Threw(u, s), s)]
             /\ UNCHANGED documents
    /\ UNCHANGED <<cloud, fieldRows, uuidCalls, get, listResp>>

(***************************************************************************)
(* GET /document/:id.                                                      *)
(***************************************************************************)
IdleGet ==
    [pc |-> "idle", id |-> 0, doc |-> NotFound, fields |-> <<>>, resp |-> 0, error |-> "",
     absent |-> FALSE, readFailed |-> FALSE, afterOk |-> FALSE]

\* ids a client may ask for
GetIds == 1..MaxUploads

\* some upload has answered 200 with this documentId
Answered200(id) == \E r \in Uploads : uploads[r].id = id /\ uploads[r].resp = 200

IsMissingNever(doc) == FALSE
\* if (!doc) return 404
IsMissing(doc) == doc = NotFound

\* catch (err) { res.status(500).json({ success: false, error: 'db error' }) }
DbError(q) ==
    [q EXCEPT !.pc = "done", !.resp = 500, !.error = "db error", !.doc = NotFound]

\* The request arrives, at any moment (GET requests write nothing, so one
\* request is followed); await db.getDocument(id) resolves or throws.
GetDocument ==
    /\ get.pc = "idle"
    /\ \E id \in GetIds, ok \in BOOLEAN :
        LET q == [IdleGet EXCEPT !.id = id, !.absent = ~HasRow(documents, id),
                                 !.afterOk = Answered200(id), !.readFailed = ~ok]
            doc == getDocument(documents, id)
        IN  get' = IF ~ok THEN DbError(q)
                   ELSE IF IsMissing(doc)
                   THEN [q EXCEPT !.pc = "done", !.resp = 404, !.error = "not found"]
                   ELSE [q EXCEPT !.pc = "getFields", !.doc = doc]
    /\ UNCHANGED <<cloud, documents, fieldRows, uuidCalls, uploads, listResp>>

\* await db.getFields(id) resolves or throws
GetFields ==
    /\ get.pc = "getFields"
    /\ \E ok \in BOOLEAN :
        get' = IF ok
               THEN [get EXCEPT !.pc = "done", !.resp = 200,
                                !.fields = getFields(fieldRows, get.id)]
               ELSE DbError([get EXCEPT !.readFailed = TRUE])
    /\ UNCHANGED <<cloud, documents, fieldRows, uuidCalls, uploads, listResp>>

(***************************************************************************)
(* GET /documents.                                                         *)
(***************************************************************************)
ProcessedOnly(docs) == SelectSeq(docs, LAMBDA d : d.status = "processed")
\* res.json({ success: true, documents: docs })
ListBody(docs) == docs

\* uploads in flight, answered 200, and answered 500 after their row was inserted
InFlight == {r \in Uploads : uploads[r].pc \notin {"idle", "done"}}
Succeeded == {r \in Uploads : uploads[r].resp = 200}
Rejected == {r \in Uploads : uploads[r].resp = 400}
Failed == {r \in Uploads : uploads[r].resp = 500}
FailedAfterInsert ==
    {r \in Failed : uploads[r].failedAt \in {"analyze", "saveExtractedFields",
                                             "updateDocumentStatus"}}

NoListResp ==
    [status |-> 0, error |-> "", documents |-> <<>>, n200 |-> 0, nLeft |-> 0, quiet |-> FALSE]

\* The request arrives, at any moment; await db.listDocuments() resolves or throws.
ListDocuments ==
    /\ listResp.status = 0
    /\ \E ok \in BOOLEAN :
        listResp' =
            IF ok
            THEN [status |-> 200, error |-> "", documents |-> ListBody(listDocuments(documents)),
                  n200 |-> Cardinality(Succeeded), nLeft |-> Cardinality(FailedAfterInsert),
                  quiet |-> InFlight = {}]
            ELSE [NoListResp EXCEPT !.status = 500, !.error = "db error"]
    /\ UNCHANGED <<cloud, documents, fieldRows, uuidCalls, uploads, get>>

Init ==
    /\ cloud \in BOOLEAN
    /\ documents = <<>>
    /\ fieldRows = <<>>
    /\ uuidCalls = 0
    /\ uploads = [r \in Uploads |-> IdleUpload]
    /\ get = IdleGet
    /\ listResp = NoListResp

\* concurrent uploads
NextUpload ==
    \/ \E r \in Uploads : UploadStart(r)
    \/ \E r \in Uploads : UploadBlob(r)
    \/ \E r \in Uploads : UploadInsert(r)
    \/ \E r \in Uploads : UploadAnalyze(r)
    \/ \E r \in Uploads : UploadSave(r)
    \/ \E r \in Uploads : UploadUpdate(r)

\* uploads and GET /document/:id requests
NextGet ==
    \/ \E r \in Uploads : UploadStart(r)
    \/ \E r \in Uploads : UploadBlob(r)
    \/ \E r \in Uploads : UploadInsert(r)
    \/ \E r \in Uploads : UploadAnalyze(r)
    \/ \E r \in Uploads : UploadSave(r)
    \/ \E r \in Uploads : UploadUpdate(r)
    \/ GetDocument
    \/ GetFields

\* uploads and GET /documents requests
NextList ==
    \/ \E r \in Uploads : UploadStart(r)
    \/ \E r \in Uploads : UploadBlob(r)
    \/ \E r \in Uploads : UploadInsert(r)
    \/ \E r \in Uploads : UploadAnalyze(r)
    \/ \E r \in Uploads : UploadSave(r)
    \/ \E r \in Uploads : UploadUpdate(r)
    \/ ListDocuments

Next ==
    \/ \E r \in Uploads : UploadStart(r)
    \/ \E r \in Uploads : UploadBlob(r)
    \/ \E r \in Uploads : UploadInsert(r)
    \/ \E r \in Uploads : UploadAnalyze(r)
    \/ \E r \in Uploads : UploadSave(r)
    \/ \E r \in Uploads : UploadUpdate(r)
    \/ GetDocument
    \/ GetFields
    \/ ListDocuments

\* The read handlers write neither the store nor an upload request, so the
\* claims about uploads alone are checked under SpecUpload, those about
\* GET /document/:id under SpecGet and those about GET /documents under SpecList.
Spec == Init /\ [][Next]_vars
SpecUpload == Init /\ [][NextUpload]_vars
SpecGet == Init /\ [][NextGet]_vars
SpecList == Init /\ [][NextList]_vars

(***************************************************************************)
(* Properties.                                                             *)
(***************************************************************************)
Row(id) == getDocument(documents, id)
StoredFields(id) == getFields(fieldRows, id)
\* the rows db.saveExtractedFields writes for the fields of an analysis
RowsOf(id, analysis) == saveExtractedFields(<<>>, id, OrEmpty(analysis.fields))
Range(seq) == {seq[i] : i \in 1..Len(seq)}
PipelineSteps == {"insertDocument", "analyze", "saveExtractedFields", "updateDocumentStatus"}
\* a value the analyzer result lacks
Absent(v) == v.t \in {"undefined", "null"}

\* C1: when POST /upload has answered 200 with a documentId, the store holds the
\* row of that id with status 'processed'; a GET /document/:id issued after the
\* answer, its store reads not failing, answers 200 with that row, 'processed'.
C1_UploadedIsProcessed ==
    /\ \A r \in Uploads :
        uploads[r].resp = 200 =>
            /\ HasRow(documents, uploads[r].id)
            /\ Row(uploads[r].id).status = "processed"
    /\ (get.pc = "done" /\ get.afterOk /\ ~get.readFailed) =>
            /\ get.resp = 200
            /\ get.doc.id = get.id
            /\ get.doc.status = "processed"

C1_Witness ==
    /\ get.pc = "done" /\ get.afterOk /\ get.resp = 200
    /\ get.doc.status = "processed"

\* C2 as stated: with no upload in flight and N uploads answered 200, a
\* successful GET /documents returns exactly N documents.
C2_ListCountIsSuccesses ==
    (listResp.status = 200 /\ listResp.quiet) =>
        Len(listResp.documents) = listResp.n200

\* C2 amended: with no upload in flight, N uploads answered 200 and F uploads
\* answered 500 after their row was inserted, a successful GET /documents
\* returns exactly N + F documents.
C2_ListCountIsInserted ==
    (listResp.status = 200 /\ listResp.quiet) =>
        Len(listResp.documents) = listResp.n200 + listResp.nLeft

C2_Witness ==
    /\ listResp.status = 200 /\ listResp.quiet
    /\ listResp.n200 = 1 /\ listResp.nLeft = 1
    /\ Len(listResp.documents) = 2

\* C3: a POST /upload without a file part answers 400 'no file uploaded' in the
\* step it arrives in: no id is generated, no storage, store or analyzer call is
\* made by it, and the two tables are unchanged.
C3_NoFileIs400 ==
    [][\A r \in Uploads :
        (uploads[r].pc = "idle" /\ uploads'[r].pc # "idle" /\ uploads'[r].file = NoFile) =>
            /\ uploads'[r].pc = "done"
            /\ uploads'[r].resp = 400
            /\ uploads'[r].error = "no file uploaded"
            /\ uploads'[r].id = 0
            /\ uploads'[r].ran = <<>>
            /\ uuidCalls' = uuidCalls
            /\ documents' = documents
            /\ fieldRows' = fieldRows]_vars

C3_Witness ==
    \E r \in Uploads :
        /\ uploads[r].resp = 400 /\ uploads[r].file = NoFile
        /\ documents # <<>>

\* C4 as stated: GET /document/:id for an id with no row always answers 404
\* 'not found'.
C4_AbsentIs404 ==
    (get.pc = "done" /\ get.absent) => (get.resp = 404 /\ get.error = "not found")

\* C4 amended: GET /document/:id for an id with no row answers 404 'not found'
\* when the store read succeeds and 500 'db error' when it fails; never 200.
C4_AbsentIs404Or500 ==
    get.absent =>
        /\ get.pc = "done"
        /\ IF get.readFailed
           THEN get.resp = 500 /\ get.error = "db error"
           ELSE get.resp = 404 /\ get.error = "not found"

C4_Witness ==
    /\ get.pc = "done" /\ get.absent /\ get.resp = 404
    /\ documents # <<>>

\* C5: when cloud storage is configured and azureBlob.uploadLocalFile throws,
\* the request goes on with blob_url = the local path, the row is inserted with
\* that path, and the request ends 200 unless a later call throws.
C5_BlobFailureFallsBack ==
    \A r \in Uploads :
        uploads[r].cloudFailed =>
            /\ cloud
            /\ uploads[r].blobUrl = LocalPath(uploads[r].file)
            /\ uploads[r].failedAt # "uploadLocalFile"
            /\ "insertDocument" \in Range(uploads[r].ran) \/ uploads[r].pc = "insertDocument"
            /\ HasRow(documents, uploads[r].id) =>
                    Row(uploads[r].id).blob_url = LocalPath(uploads[r].file)
            /\ uploads[r].pc = "done" =>
                    \/ uploads[r].resp = 200
                    \/ uploads[r].resp = 500 /\ uploads[r].failedAt \in PipelineSteps

C5_Witness ==
    \E r \in Uploads :
        /\ uploads[r].cloudFailed /\ uploads[r].resp = 200
        /\ Row(uploads[r].id).blob_url = LocalPath(uploads[r].file)

\* C6: a GET /document/:id that read a 'processed' row returns every field of
\* that document's analysis; within an upload saveExtractedFields has resolved
\* before updateDocumentStatus is called.
C6_ProcessedHasItsFields ==
    /\ \A r \in Uploads :
        (get.resp = 200 /\ get.doc.status = "processed" /\ uploads[r].id = get.id) =>
            get.fields = RowsOf(get.id, uploads[r].analysis)
    /\ \A r \in Uploads :
        (uploads[r].pc = "updateDocumentStatus"
            \/ "updateDocumentStatus" \in Range(uploads[r].ran)) =>
            /\ "saveExtractedFields" \in Range(uploads[r].ran)
            /\ uploads[r].failedAt # "saveExtractedFields"
            /\ StoredFields(uploads[r].id) = RowsOf(uploads[r].id, uploads[r].analysis)

C6_Witness ==
    /\ get.resp = 200 /\ get.doc.status = "processed"
    /\ Len(get.fields) = 2
    /\ \E r \in Uploads : uploads[r].pc \notin {"idle", "done"}

\* a finished upload whose row is still 'processing'
Stuck(r) ==
    /\ uploads[r].pc = "done"
    /\ HasRow(documents, uploads[r].id)
    /\ Row(uploads[r].id).status = "processing"

\* C7 as stated: a row still 'processing' after its upload has finished has no
\* ExtractedField rows.
C7_StuckHasNoFields ==
    \A r \in Uploads : Stuck(r) => StoredFields(uploads[r].id) = <<>>

\* C7 amended: a row still 'processing' after its upload has finished belongs to
\* a request that answered 500 after the insert; it has no ExtractedField rows
\* when analyze threw, and all the fields of its analysis when
\* updateDocumentStatus threw.
C7_StuckFieldsByFailure ==
    \A r \in Uploads :
        Stuck(r) =>
            /\ uploads[r].resp = 500
            /\ uploads[r].failedAt \in PipelineSteps \ {"insertDocument"}
            /\ uploads[r].failedAt = "analyze" => StoredFields(uploads[r].id) = <<>>
            /\ uploads[r].failedAt = "updateDocumentStatus" =>
                    StoredFields(uploads[r].id) = RowsOf(uploads[r].id, uploads[r].analysis)

C7_Witness ==
    \E r \in Uploads :
        /\ Stuck(r) /\ uploads[r].failedAt = "updateDocumentStatus"
        /\ Len(StoredFields(uploads[r].id)) = 2

\* C8: when insertDocument, analyze, saveExtractedFields or updateDocumentStatus
\* throws, the request answers 500 'upload failed', the throwing call is the
\* last call it made, and what was written stays: the row, when it was
\* inserted, is there with status 'processing', and saved fields are kept.
C8_FailureIs500NoRollback ==
    \A r \in Uploads :
        uploads[r].failedAt \in PipelineSteps =>
            /\ uploads[r].pc = "done"
            /\ uploads[r].resp = 500
            /\ uploads[r].error = "upload failed"
            /\ uploads[r].ran[Len(uploads[r].ran)] = uploads[r].failedAt
            /\ IF uploads[r].failedAt = "insertDocument"
               THEN ~HasRow(documents, uploads[r].id)
               ELSE Row(uploads[r].id).status = "processing"
            /\ uploads[r].failedAt = "updateDocumentStatus" =>
                    StoredFields(uploads[r].id) = RowsOf(uploads[r].id, uploads[r].analysis)

C8_Witness ==
    \E r \in Uploads :
        /\ uploads[r].failedAt = "analyze" /\ uploads[r].resp = 500
        /\ Row(uploads[r].id).status = "processing"

\* C9: a row is created with status 'processing' and null type and confidence by
\* the request holding its id, changes only in the updateDocumentStatus step of
\* that request, to 'processed', never changes once 'processed', and is never
\* deleted.
C9_Lifecycle ==
    [][/\ Len(documents') >= Len(documents)
       /\ \A i \in 1..Len(documents) :
            /\ documents'[i].id = documents[i].id
            /\ documents[i].status = "processed" => documents'[i] = documents[i]
            /\ documents'[i] # documents[i] =>
                /\ documents[i].status = "processing"
                /\ documents'[i].status = "processed"
                /\ \E r \in Uploads :
                    /\ uploads[r].id = documents[i].id
                    /\ uploads[r].pc = "updateDocumentStatus"
                    /\ uploads'[r].pc = "done"
                    /\ \A q \in Uploads \ {r} : uploads'[q] = uploads[q]
       /\ \A i \in (Len(documents) + 1)..Len(documents') :
            /\ documents'[i].status = "processing"
            /\ documents'[i].document_type = Null
            /\ documents'[i].confidence = Null
            /\ ~HasRow(documents, documents'[i].id)
            /\ \E r \in Uploads :
                /\ uploads[r].id = documents'[i].id
                /\ uploads[r].pc = "insertDocument"]_vars

C9_Witness ==
    \E i, j \in 1..Len(documents) :
        /\ documents[i].status = "processed"
        /\ documents[j].status = "processing"
        /\ \E r \in Uploads : uploads[r].id = documents[j].id /\ uploads[r].pc = "done"

\* C10: after a successful upload the stored document_type and confidence are
\* the analyzer's documentType and confidence, null only when the analyzer
\* result lacks the value.
C10_StoredEqualsAnalysis ==
    \A r \in Uploads :
        uploads[r].resp = 200 =>
            /\ Row(uploads[r].id).document_type =
                    IF Absent(uploads[r].analysis.documentType) THEN Null
                    ELSE uploads[r].analysis.documentType
            /\ Row(uploads[r].id).confidence =
                    IF Absent(uploads[r].analysis.confidence) THEN Null
                    ELSE uploads[r].analysis.confidence
====
